---------------------------- MODULE Spec2Model ----------------------------
(***************************************************************************)
(* Model of apps/frontend/scripts/fix-dark-mode-contrast.py.               *)
(*                                                                         *)
(* A file is a sequence of characters (one-character strings).  The script *)
(* enumerates the entries below apps/frontend/src whose name matches       *)
(* '*.tsx' and, for each, reads it as text, applies                        *)
(*     re.sub(r'dark:text-gray-700\b', 'dark:text-gray-300', content)      *)
(* and writes the text back.                                               *)
(***************************************************************************)
EXTENDS Integers, Sequences, FiniteSets, TLC

(***************************************************************************)
(* Bounds of the model.                                                    *)
(***************************************************************************)
\* number of pieces a file content of SpecRewrite is built from
MaxPieces == 3
\* number of times SpecRewrite calls fix_dark_mode_contrast on its file
MaxCalls == 2

(***************************************************************************)
(* Characters.                                                             *)
(***************************************************************************)
Letters ==
  {"a","b","c","d","e","f","g","h","i","j","k","l","m",
   "n","o","p","q","r","s","t","u","v","w","x","y","z"}

Digits == {"0","1","2","3","4","5","6","7","8","9"}

\* a byte that is not valid UTF-8 (open(..., encoding='utf-8') cannot decode it)
InvalidByte == "0xFF"

\* \w of a str pattern: alphanumerics and the underscore
IsWordChar(c) == c \in Letters \cup Digits \cup {"_"}

\* the pattern's literal part and the replacement, line 18
TargetToken ==
  <<"d","a","r","k",":","t","e","x","t","-","g","r","a","y","-","7","0","0">>

ReplacementToken ==
  <<"d","a","r","k",":","t","e","x","t","-","g","r","a","y","-","3","0","0">>

(***************************************************************************)
(* re.sub(r'dark:text-gray-700\b', 'dark:text-gray-300', content)          *)
(***************************************************************************)
\* the literal lit occurs in s at position i
LiteralAt(s, lit, i) ==
  /\ i >= 1
  /\ i + Len(lit) - 1 <= Len(s)
  /\ \A k \in 1..Len(lit) : s[i + k - 1] = lit[k]

\* \b between s[pos-1] and s[pos]: exactly one side is a word character
\* (the outside of the string counts as a non-word character)
WordBoundary(s, pos) ==
  LET before == pos - 1 >= 1 /\ pos - 1 <= Len(s) /\ IsWordChar(s[pos - 1])
      after  == pos >= 1 /\ pos <= Len(s) /\ IsWordChar(s[pos])
  IN  before # after

\* the pattern matches at position i
PatternMatchesAt(s, i) ==
  /\ LiteralAt(s, TargetToken, i)
  /\ WordBoundary(s, i + Len(TargetToken))

\* the leftmost non-overlapping matches from position i on, each replaced
RECURSIVE SubFrom(_, _)
SubFrom(s, i) ==
  IF i > Len(s) THEN <<>>
  ELSE IF PatternMatchesAt(s, i)
       THEN ReplacementToken \o SubFrom(s, i + Len(TargetToken))
       ELSE <<s[i]>> \o SubFrom(s, i + 1)

\* the number of replacements re.sub makes from position i on
RECURSIVE CountFrom(_, _)
CountFrom(s, i) ==
  IF i > Len(s) THEN 0
  ELSE IF PatternMatchesAt(s, i)
       THEN 1 + CountFrom(s, i + Len(TargetToken))
       ELSE CountFrom(s, i + 1)

\* re.sub(..., count=1): only the leftmost match is replaced
RECURSIVE SubFirstFrom(_, _)
SubFirstFrom(s, i) ==
  IF i > Len(s) THEN <<>>
  ELSE IF PatternMatchesAt(s, i)
       THEN ReplacementToken \o SubSeq(s, i + Len(TargetToken), Len(s))
       ELSE <<s[i]>> \o SubFirstFrom(s, i + 1)

ReSubFirstOnly(s) == SubFirstFrom(s, 1)

ReSub(s) == SubFrom(s, 1)

ReSubCount(s) == CountFrom(s, 1)

(***************************************************************************)
(* Text-mode file I/O: open(path, 'r' / 'w', encoding='utf-8') with the    *)
(* default newline=None.                                                   *)
(***************************************************************************)
\* f.read(): universal newlines, "\r\n" and "\r" are both read as "\n"
RECURSIVE ReadNewlinesFrom(_, _)
ReadNewlinesFrom(s, i) ==
  IF i > Len(s) THEN <<>>
  ELSE IF s[i] = "\r"
       THEN IF i + 1 <= Len(s) /\ s[i + 1] = "\n"
            THEN <<"\n">> \o ReadNewlinesFrom(s, i + 2)
            ELSE <<"\n">> \o ReadNewlinesFrom(s, i + 1)
       ELSE <<s[i]>> \o ReadNewlinesFrom(s, i + 1)

\* the bytes of the file decode as UTF-8
Decodable(bytes) == \A k \in 1..Len(bytes) : bytes[k] # InvalidByte

\* what f.read() returns for a decodable file
ReadText(bytes) == ReadNewlinesFrom(bytes, 1)

\* os.linesep
LineSep(os) == IF os = "nt" THEN <<"\r", "\n">> ELSE <<"\n">>

\* f.write(content): every "\n" is written as os.linesep
RECURSIVE WriteNewlinesFrom(_, _, _)
WriteNewlinesFrom(s, i, os) ==
  IF i > Len(s) THEN <<>>
  ELSE IF s[i] = "\n"
       THEN LineSep(os) \o WriteNewlinesFrom(s, i + 1, os)
       ELSE <<s[i]>> \o WriteNewlinesFrom(s, i + 1, os)

WriteText(text, os) == WriteNewlinesFrom(text, 1, os)


(***************************************************************************)
(* The directory tree.  Every entry that can exist below the root          *)
(* apps/frontend/src; which of them exist, and as what, is chosen in Init. *)
(***************************************************************************)
Entries == {"a.tsx", "b.ts", "sub", "sub/c.tsx", "d.tsx"}

\* the final path component, as characters
Name(p) ==
  CASE p = "a.tsx"     -> <<"a", ".", "t", "s", "x">>
    [] p = "b.ts"      -> <<"b", ".", "t", "s">>
    [] p = "sub"       -> <<"s", "u", "b">>
    [] p = "sub/c.tsx" -> <<"c", ".", "t", "s", "x">>
    [] p = "d.tsx"     -> <<"d", ".", "t", "s", "x">>

\* the directory holding the entry ("" is the root itself)
Parent(p) == IF p = "sub/c.tsx" THEN "sub" ELSE ""

\* the kinds each entry may have ("none": it does not exist)
Kinds(p) ==
  CASE p = "a.tsx"     -> {"file", "none"}
    [] p = "b.ts"      -> {"file"}
    [] p = "sub"       -> {"dir"}
    [] p = "sub/c.tsx" -> {"file", "none"}
    [] p = "d.tsx"     -> {"file", "dir", "none"}

Concat(a, b, c) == a \o b \o c

\* contents of the files of Spec
SampleContents ==
  { Concat(TargetToken, <<"\r", "\n">>, <<"x">>),
    Concat(<<"x">>, <<"\r", "\n">>, <<"y">>),
    Concat(TargetToken, <<"-", "x">>, <<" ">>),
    Concat(TargetToken, <<" ">>, <<InvalidByte>>) }

\* the pieces the contents of SpecRewrite are built from
Pieces ==
  { TargetToken, ReplacementToken, <<"0">>, <<"x">>, <<"-">>, <<" ">>,
    <<"\r">>, <<"\n">>, <<InvalidByte>> }

RECURSIVE ContentsOf(_)
ContentsOf(n) ==
  IF n = 0 THEN {<<>>}
  ELSE LET shorter == ContentsOf(n - 1)
       IN  shorter \cup {c \o q : c \in shorter, q \in Pieces}

(***************************************************************************)
(* State.                                                                  *)
(***************************************************************************)
VARIABLES
  os,          \* "posix" or "nt": the platform the script runs on
  rootExists,  \* apps/frontend/src exists
  kind,        \* entry -> "file" | "dir" | "none"
  disk,        \* entry -> the bytes of the file on disk
  tsx_files,   \* main's list of paths
  idx,         \* position of main's for loop in tsx_files (0: not started)
  pc,          \* the statement the script is at
  content,     \* fix_dark_mode_contrast's local variable
  handle,      \* the file object that is open: <<>> or <<path, mode>>
  stdout,      \* what has been printed
  stderr,      \* the uncaught exception reported: <<>> or <<<<error, path>>>>
  exitStatus,  \* "running", "exit0" or "exit1"
  orig,        \* history: the disk at the start
  opened,      \* history: the paths given to open(..., 'r'), in order
  cur,         \* history: the call in progress, [before, text, result, n]
  calls        \* history: one record per completed fix_dark_mode_contrast

vars ==
  <<os, rootExists, kind, disk, tsx_files, idx, pc, content, handle,
    stdout, stderr, exitStatus, orig, opened, cur, calls>>

NoCall == [before |-> <<>>, text |-> <<>>, result |-> <<>>, n |-> 0]

\* Path.rglob pattern '*.tsx', line 26: the name ends with ".tsx"
MatchesPattern(p) ==
  LET n == Name(p)
      suffix == <<".", "t", "s", "x">>
  IN  /\ Len(n) >= Len(suffix)
      /\ \A k \in 1..Len(suffix) : n[Len(n) - Len(suffix) + k] = suffix[k]

\* the entry exists, and so does every directory above it
RECURSIVE Reachable(_, _)
Reachable(k, p) ==
  /\ k[p] # "none"
  /\ \/ Parent(p) = ""
     \/ k[Parent(p)] = "dir" /\ Reachable(k, Parent(p))

\* what src_dir.rglob('*.tsx') yields, as a set: nothing when src_dir is missing
RglobSet ==
  IF rootExists
  THEN {p \in Entries : Reachable(kind, p) /\ MatchesPattern(p)}
  ELSE {}

\* the sequences that list the set S once each, in any order
Orderings(S) ==
  {q \in [1..Cardinality(S) -> S] : \A i, j \in 1..Cardinality(S) : q[i] = q[j] => i = j}

TypeOK ==
  /\ os \in {"posix", "nt"}
  /\ rootExists \in BOOLEAN
  /\ \A p \in Entries : kind[p] \in Kinds(p) \cup {"none"}
  /\ idx \in 0..Cardinality(Entries)
  /\ pc \in {"main", "loop", "open_r", "read", "sub", "open_w", "write",
             "returned", "done", "crashed"}
  /\ exitStatus \in {"running", "exit0", "exit1"}
  /\ Len(stderr) <= 1

(***************************************************************************)
(* Init: the script is about to run main() on some tree.                   *)
(***************************************************************************)
Init ==
  /\ os \in {"posix", "nt"}
  /\ rootExists \in BOOLEAN
  /\ kind \in [Entries -> {"file", "dir", "none"}]
  /\ \A p \in Entries : kind[p] \in (IF rootExists THEN Kinds(p) ELSE {"none"})
  /\ disk \in [Entries -> SampleContents \cup {<<>>}]
  /\ \A p \in Entries : (disk[p] = <<>>) <=> (kind[p] # "file")
  /\ orig = disk
  /\ tsx_files = <<>>
  /\ idx = 0
  /\ pc = "main"
  /\ content = <<>>
  /\ handle = <<>>
  /\ stdout = <<>>
  /\ stderr = <<>>
  /\ exitStatus = "running"
  /\ opened = <<>>
  /\ cur = NoCall
  /\ calls = <<>>

(***************************************************************************)
(* main()                                                                  *)
(***************************************************************************)
\* an exception nothing catches: the traceback is printed, the interpreter
\* exits with status 1 (a with-statement closes its file on the way out)
Raise(err, p) ==
  /\ pc' = "crashed"
  /\ stderr' = Append(stderr, <<err, p>>)
  /\ exitStatus' = "exit1"
  /\ handle' = <<>>

\* the count of the '*.tsx' entries directly in src_dir (glob for rglob)
StartMessageTopLevel(files) ==
  <<"Fixing dark mode contrast in files",
    Cardinality({k \in 1..Len(files) : Parent(files[k]) = ""})>>

\* line 28: print(f"Fixing dark mode contrast in {len(tsx_files)} files...")
StartMessage(files) == <<"Fixing dark mode contrast in files", Len(files)>>

\* line 33: print("Dark mode contrast fixes applied!")
EndMessage == <<"Dark mode contrast fixes applied!">>

\* lines 25-28: list(src_dir.rglob('*.tsx')) in the order the directory scan
\* gives, then the first print
Enumerate ==
  /\ pc = "main"
  /\ \E order \in Orderings(RglobSet) :
       /\ tsx_files' = order
       /\ stdout' = Append(stdout, StartMessage(order))
  /\ pc' = "loop"
  /\ UNCHANGED <<os, rootExists, kind, disk, idx, content, handle, stderr,
                 exitStatus, orig, opened, cur, calls>>

\* a loop that does not advance past its first item
NextIndexStuck(i) == IF i = 0 THEN 1 ELSE i

\* the for loop's step through tsx_files, line 30
NextIndex(i) == i + 1

\* lines 30-31: the loop takes the next path and calls fix_dark_mode_contrast
ForNext ==
  /\ pc \in {"loop", "returned"}
  /\ idx < Len(tsx_files)
  /\ idx' = NextIndex(idx)
  /\ pc' = "open_r"
  /\ UNCHANGED <<os, rootExists, kind, disk, tsx_files, content, handle, stdout,
                 stderr, exitStatus, orig, opened, cur, calls>>

\* line 33: the list is exhausted, the last print, the script ends
ForEnd ==
  /\ pc \in {"loop", "returned"}
  /\ idx >= Len(tsx_files)
  /\ stdout' = Append(stdout, EndMessage)
  /\ pc' = "done"
  /\ exitStatus' = "exit0"
  /\ UNCHANGED <<os, rootExists, kind, disk, tsx_files, idx, content, handle,
                 stderr, orig, opened, cur, calls>>

(***************************************************************************)
(* fix_dark_mode_contrast(file_path), file_path = tsx_files[idx]           *)
(***************************************************************************)
file_path == tsx_files[idx]

\* line 13: open(file_path, 'r', encoding='utf-8')
OpenRead ==
  /\ pc = "open_r"
  /\ opened' = Append(opened, file_path)
  /\ cur' = [NoCall EXCEPT !.before = disk[file_path]]
  /\ \/ /\ kind[file_path] = "file"
        /\ handle' = <<file_path, "r">>
        /\ pc' = "read"
        /\ UNCHANGED <<stderr, exitStatus>>
     \/ /\ kind[file_path] = "dir"
        /\ Raise("IsADirectoryError", file_path)
     \/ \* the file was removed or may not be read
        /\ kind[file_path] = "file"
        /\ Raise("OSError", file_path)
  /\ UNCHANGED <<os, rootExists, kind, disk, tsx_files, idx, content, stdout,
                 orig, calls>>

\* line 14: content = f.read(), and the with-statement closes the file
Read ==
  /\ pc = "read"
  /\ IF Decodable(disk[file_path])
     THEN /\ content' = ReadText(disk[file_path])
          /\ handle' = <<>>
          /\ pc' = "sub"
          /\ UNCHANGED <<stderr, exitStatus>>
     ELSE /\ Raise("UnicodeDecodeError", file_path)
          /\ UNCHANGED content
  /\ UNCHANGED <<os, rootExists, kind, disk, tsx_files, idx, stdout, orig,
                 opened, cur, calls>>

\* line 18: content = re.sub(...)
Sub ==
  /\ pc = "sub"
  /\ content' = ReSub(content)
  /\ cur' = [cur EXCEPT !.text = content, !.result = ReSub(content),
                         !.n = ReSubCount(content)]
  /\ pc' = "open_w"
  /\ UNCHANGED <<os, rootExists, kind, disk, tsx_files, idx, handle, stdout,
                 stderr, exitStatus, orig, opened, calls>>

\* line 20: open(file_path, 'w', encoding='utf-8') truncates the file
OpenWrite ==
  /\ pc = "open_w"
  /\ \/ /\ disk' = [disk EXCEPT ![file_path] = <<>>]
        /\ handle' = <<file_path, "w">>
        /\ pc' = "write"
        /\ UNCHANGED <<stderr, exitStatus>>
     \/ \* the file may not be written
        /\ Raise("OSError", file_path)
        /\ UNCHANGED disk
  /\ UNCHANGED <<os, rootExists, kind, tsx_files, idx, content, stdout, orig,
                 opened, cur, calls>>

\* how much of the text reaches the disk when the write fails
PartialLengths(n) == {k \in {0, n \div 2, n - 1} : 0 <= k /\ k < n}

\* line 21: f.write(content), and the with-statement flushes and closes
Write ==
  /\ pc = "write"
  /\ LET bytes == WriteText(content, os)
     IN  \/ /\ disk' = [disk EXCEPT ![file_path] = bytes]
            /\ handle' = <<>>
            /\ calls' = Append(calls, [path |-> file_path, before |-> cur.before,
                                       text |-> cur.text, result |-> cur.result,
                                       after |-> bytes, n |-> cur.n])
            /\ pc' = "returned"
            /\ UNCHANGED <<stderr, exitStatus>>
         \/ \* the disk is full
            /\ \E k \in PartialLengths(Len(bytes)) :
                 disk' = [disk EXCEPT ![file_path] = SubSeq(bytes, 1, k)]
            /\ Raise("OSError", file_path)
            /\ UNCHANGED calls
  /\ UNCHANGED <<os, rootExists, kind, tsx_files, idx, content, stdout, orig,
                 opened, cur>>

Next ==
  \/ Enumerate
  \/ ForNext
  \/ ForEnd
  \/ OpenRead
  \/ Read
  \/ Sub
  \/ OpenWrite
  \/ Write

Spec == Init /\ [][Next]_vars

(***************************************************************************)
(* SpecRewrite: fix_dark_mode_contrast called MaxCalls times on one file   *)
(* whose content is any sequence of at most MaxPieces pieces.              *)
(***************************************************************************)
InitRewrite ==
  /\ os \in {"posix", "nt"}
  /\ rootExists = TRUE
  /\ kind = [p \in Entries |-> IF p = "a.tsx" THEN "file" ELSE "none"]
  /\ \E c \in ContentsOf(MaxPieces) :
       disk = [p \in Entries |-> IF p = "a.tsx" THEN c ELSE <<>>]
  /\ orig = disk
  /\ tsx_files = <<"a.tsx">>
  /\ idx = 1
  /\ pc = "open_r"
  /\ content = <<>>
  /\ handle = <<>>
  /\ stdout = <<>>
  /\ stderr = <<>>
  /\ exitStatus = "running"
  /\ opened = <<>>
  /\ cur = NoCall
  /\ calls = <<>>

\* the caller calls the function on the same path again
CallAgain ==
  /\ pc = "returned"
  /\ Len(calls) < MaxCalls
  /\ pc' = "open_r"
  /\ UNCHANGED <<os, rootExists, kind, disk, tsx_files, idx, content, handle,
                 stdout, stderr, exitStatus, orig, opened, cur, calls>>

NextRewrite ==
  \/ OpenRead
  \/ Read
  \/ Sub
  \/ OpenWrite
  \/ Write
  \/ CallAgain

SpecRewrite == InitRewrite /\ [][NextRewrite]_vars

(***************************************************************************)
(* Vocabulary of the properties.                                           *)
(***************************************************************************)
\* a character that continues a class-name token
IsTokenChar(c) == IsWordChar(c) \/ c = "-"

\* the target's characters at i are the start of a longer token
LongerTokenAt(s, i) ==
  /\ LiteralAt(s, TargetToken, i)
  /\ i + Len(TargetToken) <= Len(s)
  /\ IsTokenChar(s[i + Len(TargetToken)])

\* the target's characters at i are the exact token: no token character follows
ExactTokenAt(s, i) ==
  /\ LiteralAt(s, TargetToken, i)
  /\ ~LongerTokenAt(s, i)

\* the target's characters occur nowhere in s
NoTarget(s) == \A i \in 1..Len(s) : ~LiteralAt(s, TargetToken, i)

\* s with every exact token replaced and everything else kept
RECURSIVE ExactReplacedFrom(_, _)
ExactReplacedFrom(s, i) ==
  IF i > Len(s) THEN <<>>
  ELSE IF ExactTokenAt(s, i)
       THEN ReplacementToken \o ExactReplacedFrom(s, i + Len(TargetToken))
       ELSE <<s[i]>> \o ExactReplacedFrom(s, i + 1)

ExactReplaced(s) == ExactReplacedFrom(s, 1)

\* the paths of the completed calls
Rewritten == {calls[k].path : k \in 1..Len(calls)}

\* the paths an exception was reported for
Failed == {stderr[k][2] : k \in 1..Len(stderr)}

Enumerated == {tsx_files[k] : k \in 1..Len(tsx_files)}

\* the regular files below the root whose name ends with ".tsx"
TsxFiles ==
  IF rootExists
  THEN {p \in Entries : Reachable(kind, p) /\ kind[p] = "file" /\ MatchesPattern(p)}
  ELSE {}

\* the script has ended, one way or the other
Terminated == pc \in {"done", "crashed"}

(***************************************************************************)
(* C1.  Token boundary: wherever the text read holds the target's          *)
(* characters as the start of a longer token (a token character follows:   *)
(* a digit as in dark:text-gray-7000, a hyphen as in dark:text-gray-700-x),*)
(* the text written still holds them there.                                *)
(***************************************************************************)
C1_LongerTokensUnaltered ==
  \A k \in 1..Len(calls) :
    \A i \in 1..Len(calls[k].text) :
      LongerTokenAt(calls[k].text, i) => LiteralAt(calls[k].result, TargetToken, i)

(***************************************************************************)
(* C2.  Batch resilience: when the run has ended, it has ended             *)
(* successfully, every failure is reported for its file, and every         *)
(* enumerated file without a failure has been rewritten.                   *)
(***************************************************************************)
C2_BatchResilience ==
  Terminated =>
    /\ exitStatus = "exit0"
    /\ \A p \in Enumerated : p \in Failed \/ p \in Rewritten

(***************************************************************************)
(* C3.  A file that does not hold the target's characters is, after the    *)
(* call, byte for byte what it was before, and the call replaced nothing.  *)
(***************************************************************************)
C3_NoTargetPreserved ==
  \A k \in 1..Len(calls) :
    NoTarget(calls[k].before) =>
      calls[k].after = calls[k].before /\ calls[k].n = 0

(***************************************************************************)
(* C4.  A missing root makes the run abort with NotFoundError and a        *)
(* non-zero exit status before any file is opened or written; an existing  *)
(* root without matching files gives the empty list and a successful run.  *)
(***************************************************************************)
C4_MissingRootAborts ==
  /\ (~rootExists /\ pc # "main") =>
        /\ pc = "crashed"
        /\ exitStatus = "exit1"
        /\ \E k \in 1..Len(stderr) : stderr[k][1] = "NotFoundError"
        /\ opened = <<>>
        /\ disk = orig
  /\ (rootExists /\ TsxFiles = {} /\ RglobSet = {} /\ pc # "main") =>
        /\ tsx_files = <<>>
        /\ exitStatus # "exit1"

(***************************************************************************)
(* C5.  After the call no exact target token is left in the file, and the  *)
(* file is what it was before with every exact target token replaced and   *)
(* nothing else changed.                                                   *)
(***************************************************************************)
C5_EveryExactTokenReplaced ==
  \A k \in 1..Len(calls) :
    /\ \A i \in 1..Len(calls[k].after) : ~ExactTokenAt(calls[k].after, i)
    /\ calls[k].after = ExactReplaced(calls[k].before)

(***************************************************************************)
(* C6.  Once enumerated, tsx_files lists exactly the regular files below   *)
(* the root whose name ends with ".tsx"; nothing else is ever opened, and  *)
(* the content of nothing else ever changes.                               *)
(***************************************************************************)
C6_OnlyTsxFilesTouched ==
  /\ pc # "main" => Enumerated = TsxFiles
  /\ \A k \in 1..Len(opened) : opened[k] \in TsxFiles
  /\ \A p \in Entries \ TsxFiles : disk[p] = orig[p]

(***************************************************************************)
(* C7.  Idempotence: every call after the first leaves the file with the   *)
(* content the first call gave it, and replaces nothing.                   *)
(***************************************************************************)
C7_Idempotent ==
  \A k \in 2..Len(calls) :
    /\ calls[k].after = calls[1].after
    /\ calls[k].before = calls[1].after
    /\ calls[k].n = 0

\* a second call has completed on a file in which the first replaced a token
\* and changed a line ending
C7_Witness ==
  /\ Len(calls) >= 2
  /\ calls[1].n > 0
  /\ calls[1].text # calls[1].before
  /\ calls[1].after # calls[1].before

(***************************************************************************)
(* C8 as claimed: when the run finishes, its output holds a summary giving *)
(* the number of files scanned and the number of files modified.           *)
(***************************************************************************)
NumModified == Cardinality({k \in 1..Len(calls) : calls[k].n > 0})

C9_Sequential ==
  /\ Len(opened) <= Len(tsx_files)
  /\ \A k \in 1..Len(opened) : opened[k] = tsx_files[k]
  /\ \A j, k \in 1..Len(opened) : opened[j] = opened[k] => j = k
  /\ Len(calls) <= Len(opened)
  /\ Len(calls) >= Len(opened) - 1
  /\ \A k \in 1..Len(calls) : calls[k].path = opened[k]
  /\ handle # <<>> =>
       /\ Len(opened) >= 1
       /\ handle[1] = opened[Len(opened)]
       /\ Len(calls) = Len(opened) - 1
  /\ pc \in {"read", "sub", "open_w", "write"} => Len(calls) = Len(opened) - 1

\* the third file is open for writing after the first two were completed
C9_Witness ==
  /\ Len(calls) = 2
  /\ Len(opened) = 3
  /\ pc = "write"
  /\ handle = <<tsx_files[3], "w">>

(***************************************************************************)
(* C10.  Per-file atomicity: at every moment every file on disk holds      *)
(* either its original bytes or its fully transformed bytes.               *)
(***************************************************************************)
FullyTransformed(bytes) == WriteText(ReSub(ReadText(bytes)), os)

C10_OriginalOrTransformed ==
  \A p \in Entries :
    kind[p] = "file" => disk[p] \in {orig[p], FullyTransformed(orig[p])}

=============================================================================
